---------------------------- MODULE Spec2Model ----------------------------
(***************************************************************************)
(* A model of MediGuard's two pieces of decision logic:                    *)
(*                                                                         *)
(*   - verify_medicine_authenticity (src/app.py), the rule engine that     *)
(*     maps scanned barcode data to (status, details, confidence);         *)
(*   - the reminder life cycle: generate_medicine_reminders and the        *)
(*     request handlers of src/app.py together with the APScheduler        *)
(*     wrapper of src/scheduler.py.                                        *)
(*                                                                         *)
(* Strings are sequences of one-character strings, so that upper(),        *)
(* "in", startswith(), len() and strptime() are computed, not assumed.     *)
(***************************************************************************)
EXTENDS Integers, Sequences, FiniteSets, TLC

VARIABLES
    \* ---- verify_medicine_authenticity (one call, step by step) ----
    vscan,      \* barcode_data: [codes, batch, expiry, manufacturer]
    vnow,       \* the value datetime.now() returns during the call
    vpc,        \* position in the function body
    vres,       \* the locals [status, confidence, details]
    \* ---- the host ----
    clock,      \* datetime.utcnow(), in hours
    tz,         \* the host's zone: datetime.now() = datetime.utcnow() + tz
    up,         \* the process is alive
    running,    \* scheduler.running
    \* ---- src/scheduler.py: the APScheduler job table ----
    jobs,       \* the jobs: records [id, args, run_date, late]
    notified,   \* how often notify_user has been called, per reminder id
    exc,        \* the exception the last scheduler call let out ("none")
    \* ---- the persistence store (src/database.py) ----
    prescriptions,  \* id -> [user_id]
    medicines,      \* id -> [prescription_id, user_id, timing, duration]
    reminders,      \* id -> [medicine_id, user_id, reminder_time, status]
    \* ---- the request being served (src/app.py) ----
    req,        \* save_prescription in progress and its locals, or Idle
    resp,       \* the response a handler has sent, "none" once it is out
    call,       \* SpecSched: the call a caller of the scheduler has just made
    seq,        \* the ids handed out so far: [prescriptions, medicines, reminders]
    \* ---- generate_medicine_reminders (one call, up to the commit) ----
    gtiming,    \* the argument timing
    gdays,      \* the argument duration_days
    gtpd,       \* the local times_per_day
    gslots,     \* the reminder_time of each entry of reminders_to_create
    gpc,        \* position in the function body
    \* ---- history, for the statements below ----
    life        \* per reminder id: "none", "scheduled" or "cancelled"

vvars == <<vscan, vnow, vpc, vres>>
hvars == <<clock, tz, up, running>>
jvars == <<jobs, notified, exc>>
dvars == <<prescriptions, medicines, reminders, seq>>
rvars == <<req, resp, call>>
gvars == <<life>>
svars == <<hvars, jvars, dvars, rvars, gvars>>
pvars == <<gtiming, gdays, gtpd, gslots, gpc>>
vars == <<vvars, svars, pvars>>

(***************************************************************************)
(* Strings                                                                 *)
(***************************************************************************)
Lower == <<"a","b","c","d","e","f","g","h","i","j","k","l","m",
           "n","o","p","q","r","s","t","u","v","w","x","y","z">>
Upper == <<"A","B","C","D","E","F","G","H","I","J","K","L","M",
           "N","O","P","Q","R","S","T","U","V","W","X","Y","Z">>
Digits == <<"0","1","2","3","4","5","6","7","8","9">>

Range(f) == {f[i] : i \in DOMAIN f}

\* str.upper() on one character
UpperChar(c) ==
    IF c \in Range(Lower)
    THEN Upper[CHOOSE i \in DOMAIN Lower : Lower[i] = c]
    ELSE c

\* str.upper()
ToUpper(s) == [i \in DOMAIN s |-> UpperChar(s[i])]

\* s.startswith(p)
StartsWith(s, p) ==
    /\ Len(p) <= Len(s)
    /\ \A i \in 1..Len(p) : s[i] = p[i]

\* p in s  (substring test)
Contains(s, p) ==
    \E k \in 0..(Len(s) - Len(p)) : \A i \in 1..Len(p) : s[k + i] = p[i]

\* c.isalpha() / c.isdigit() for the characters the model uses
IsAlpha(c) == c \in Range(Lower) \cup Range(Upper)
IsDigit(c) == c \in Range(Digits)

\* s[:n]
Prefix(s, n) == SubSeq(s, 1, IF Len(s) < n THEN Len(s) ELSE n)

Min(a, b) == IF a < b THEN a ELSE b
Max(a, b) == IF a > b THEN a ELSE b

(***************************************************************************)
(* datetime.strptime(expiry, '%Y-%m-%d')                                   *)
(***************************************************************************)
DigitVal(c) == (CHOOSE i \in DOMAIN Digits : Digits[i] = c) - 1

AllDigits(s) == \A i \in DOMAIN s : IsDigit(s[i])

RECURSIVE NumVal(_)
NumVal(s) ==
    IF s = <<>> THEN 0
    ELSE 10 * NumVal(SubSeq(s, 1, Len(s) - 1)) + DigitVal(s[Len(s)])

IsLeap(y) == (y % 4 = 0 /\ y % 100 # 0) \/ y % 400 = 0

DaysInMonth(y, m) ==
    IF m = 2 THEN (IF IsLeap(y) THEN 29 ELSE 28)
    ELSE IF m \in {4, 6, 9, 11} THEN 30 ELSE 31

\* positions of the '-' separators
Dashes(s) == {i \in DOMAIN s : s[i] = "-"}

\* The parsed date [y, m, d], or NoDate when strptime raises ValueError:
\* four digits of year, '-', one or two digits of month (1..12), '-', one or
\* two digits of day (1..days of that month), and nothing else.
NoDate == [y |-> 0, m |-> 0, d |-> 0]

Strptime(s) ==
    IF Cardinality(Dashes(s)) # 2 THEN NoDate
    ELSE LET d1 == CHOOSE i \in Dashes(s) : \A j \in Dashes(s) : i <= j
             d2 == CHOOSE i \in Dashes(s) : \A j \in Dashes(s) : i >= j
             ys == SubSeq(s, 1, d1 - 1)
             ms == SubSeq(s, d1 + 1, d2 - 1)
             ds == SubSeq(s, d2 + 1, Len(s))
         IN IF /\ Len(ys) = 4 /\ Len(ms) \in {1, 2} /\ Len(ds) \in {1, 2}
               /\ AllDigits(ys) /\ AllDigits(ms) /\ AllDigits(ds)
               /\ NumVal(ms) \in 1..12
               /\ NumVal(ds) \in 1..DaysInMonth(NumVal(ys), NumVal(ms))
            THEN [y |-> NumVal(ys), m |-> NumVal(ms), d |-> NumVal(ds)]
            ELSE NoDate

\* exp_date > datetime.now(): exp_date is midnight of the parsed day; now is
\* [y, m, d, tod] with tod = 0 at midnight sharp and tod > 0 later that day.
DateAfterNow(e, now) ==
    \/ e.y > now.y
    \/ e.y = now.y /\ e.m > now.m
    \/ e.y = now.y /\ e.m = now.m /\ e.d > now.d
    \/ e.y = now.y /\ e.m = now.m /\ e.d = now.d /\ 0 > now.tod


(***************************************************************************)
(* Bounds of the model                                                     *)
(***************************************************************************)
MaxReminders == 2       \* reminder ids 1..MaxReminders
MaxMedicines == 1       \* medicine (and prescription) ids 1..MaxMedicines
MaxClock == 16          \* the clock stops here
TickHours == 4          \* the clock advances by at most this much at once
SaveBefore == 4         \* prescriptions are saved while the clock is below this
MaxNotify == 1          \* SpecSched: schedule an id until it was notified this often
SchedClock == 4         \* SpecSched: the clock stops here

ReminderIds == 1..MaxReminders
MedicineIds == 1..MaxMedicines
Users == {1, 2}
\* the users who upload prescriptions
Owners == {1}
\* the zones the host may be in: west of UTC, UTC, east of UTC
TimeZones == {-8, 0, 2}

Idle == [op |-> "idle"]
NoCall == [call |-> "none", id |-> 0, had |-> FALSE]

\* an empty table
Empty == [x \in {} |-> 0]

\* no id handed out yet
NoIds == [prescriptions |-> 0, medicines |-> 0, reminders |-> 0]

\* no call of verify_medicine_authenticity under way
NoVerify ==
    /\ vscan = Empty /\ vnow = [y |-> 2024, m |-> 1, d |-> 1, tod |-> 0]
    /\ vpc = "idle" /\ vres = [status |-> "suspicious", confidence |-> 50, details |-> <<>>]

\* no call of generate_medicine_reminders looked at on its own
NoGenerate ==
    /\ gtiming = <<>> /\ gdays = 0 /\ gtpd = 1 /\ gslots = <<>> /\ gpc = "idle"

\* the state of a process that has not been started
NoProgram ==
    /\ clock = 0 /\ tz = 0 /\ up = FALSE /\ running = FALSE
    /\ jobs = {} /\ notified = [i \in ReminderIds |-> 0] /\ exc = "none"
    /\ prescriptions = Empty /\ medicines = Empty /\ reminders = Empty
    /\ req = Idle /\ resp = "none" /\ call = NoCall
    /\ seq = NoIds /\ life = [i \in ReminderIds |-> "none"]

(***************************************************************************)
(* src/scheduler.py                                                        *)
(***************************************************************************)
\* datetime.now(), which is also the clock APScheduler reads a naive
\* run_date against (DateTrigger localizes it to the host's zone)
LocalNow == clock + tz

\* line 47 / line 68: f"reminder_{reminder_id}"
JobId(reminder_id) == <<"reminder_", reminder_id>>

\* The job add_job builds.  late: the run_date had already been reached when
\* the job was added; the worker then finds it overdue by more than the
\* misfire grace time and drops it without calling notify_user.
NewJob(reminder_id, scheduled_time) ==
    [id |-> JobId(reminder_id), args |-> reminder_id,
     run_date |-> scheduled_time, late |-> scheduled_time <= LocalNow]

\* a slip: replace_existing left out, the job is added beside the old one
AddJob_NoReplace(tbl, job) == tbl \cup {job}

\* lines 49-55: scheduler.add_job(..., id=job_id, replace_existing=True)
AddJob(tbl, job) == {j \in tbl : j.id # job.id} \cup {job}

\* lines 36-58: schedule_reminder; nothing in the try block raises
ScheduleReminder(tbl, reminder_id, scheduled_time) ==
    AddJob(tbl, NewJob(reminder_id, scheduled_time))

\* line 70: scheduler.remove_job(job_id): JobLookupError when no job has the id
RemoveJob(tbl, job_id) ==
    IF \E j \in tbl : j.id = job_id
    THEN [jobs |-> {j \in tbl : j.id # job_id}, raised |-> "none"]
    ELSE [jobs |-> tbl, raised |-> "JobLookupError"]

\* a slip: no try/except around remove_job
UnscheduleReminder_Uncaught(tbl, reminder_id) ==
    LET r == RemoveJob(tbl, JobId(reminder_id))
    IN [jobs |-> r.jobs, exc |-> r.raised, removed |-> r.raised = "none"]

\* lines 61-73: unschedule_reminder: the except clause logs and returns
UnscheduleReminder(tbl, reminder_id) ==
    LET r == RemoveJob(tbl, JobId(reminder_id))
    IN [jobs |-> r.jobs, exc |-> "none", removed |-> r.raised = "none"]

RECURSIVE UnscheduleAll(_, _)
\* unschedule_reminder for each id of a list, in order
UnscheduleAll(tbl, ids) ==
    IF ids = <<>> THEN [jobs |-> tbl, exc |-> "none", removed |-> {}]
    ELSE LET first == UnscheduleReminder(tbl, Head(ids))
             rest == UnscheduleAll(first.jobs, Tail(ids))
         IN IF first.exc # "none"
            THEN [jobs |-> first.jobs, exc |-> first.exc, removed |-> {}]
            ELSE [jobs |-> rest.jobs, exc |-> rest.exc,
                  removed |-> rest.removed \cup
                      (IF first.removed THEN {Head(ids)} ELSE {})]

\* the ids of a set of (reminder) ids as a list in ascending order
RECURSIVE SortedIds(_)
SortedIds(set) ==
    IF set = {} THEN <<>>
    ELSE LET m == CHOOSE x \in set : \A y \in set : x <= y
         IN <<m>> \o SortedIds(set \ {m})

JobsOf(tbl, reminder_id) == {j \in tbl : j.id = JobId(reminder_id)}

\* the job has come due on the scheduler's clock
Due(j) == j.run_date <= LocalNow

\* a slip: the worker calls notify_user and leaves the job in the table
Fire_LeavesJob(j) ==
    /\ up /\ running
    /\ j \in jobs /\ ~j.late /\ j.run_date <= LocalNow
    /\ notified[j.args] < MaxNotify
    /\ notified' = [notified EXCEPT ![j.args] = @ + 1]
    /\ resp' = "none"
    /\ UNCHANGED <<hvars, jobs, exc, dvars, req, call, gvars, vvars, pvars>>

\* The worker thread runs a job that has come due: notify_user is called
\* (lines 17-33) and the date-triggered job leaves the table.
Fire(j) ==
    /\ up /\ running
    /\ j \in jobs /\ ~j.late /\ Due(j)
    /\ notified' = [notified EXCEPT ![j.args] = @ + 1]
    /\ jobs' = jobs \ {j}
    /\ resp' = "none"
    /\ UNCHANGED <<hvars, exc, dvars, req, call, gvars, vvars, pvars>>

\* The worker thread finds a job that was added after its run_date: the run
\* is missed, and the job leaves the table without notify_user being called.
Misfire(j) ==
    /\ up /\ running
    /\ j \in jobs /\ j.late
    /\ jobs' = jobs \ {j}
    /\ resp' = "none"
    /\ UNCHANGED <<hvars, notified, exc, dvars, req, call, gvars, vvars, pvars>>

\* the instants (on the UTC clock) at which a live job falls due
DueInstants ==
    IF up /\ running
    THEN {j.run_date - tz : j \in {k \in jobs : ~k.late}}
    ELSE {}

\* Time passes: by TickHours, or up to the next instant a job falls due.
\* The worker handles what is due before the clock moves on, and a request
\* is served within one instant of this clock.
Tick ==
    /\ clock < MaxClock
    /\ req = Idle
    /\ ~(up /\ running /\ \E j \in jobs : j.late \/ Due(j))
    /\ LET next == {t \in DueInstants : t > clock /\ t < clock + TickHours}
           target == IF next = {} THEN clock + TickHours
                     ELSE CHOOSE t \in next : \A u \in next : t <= u
       IN clock' = Min(target, MaxClock)
    /\ resp' = "none"
    /\ UNCHANGED <<tz, up, running, jvars, dvars, req, call, gvars, vvars, pvars>>

\* life after schedule_reminder has been called for the ids, and after
\* unschedule_reminder has removed their jobs
Registered(l, ids) ==
    [i \in ReminderIds |-> IF i \in ids /\ l[i] = "none" THEN "scheduled" ELSE l[i]]
Cancelled(l, ids) == [i \in ReminderIds |-> IF i \in ids THEN "cancelled" ELSE l[i]]

(***************************************************************************)
(* The scheduler's functions called directly, on a started scheduler       *)
(***************************************************************************)
SchedInit ==
    /\ clock = 0 /\ tz \in TimeZones /\ up = TRUE /\ running = TRUE
    /\ jobs = {} /\ notified = [i \in ReminderIds |-> 0] /\ exc = "none"
    /\ prescriptions = Empty /\ medicines = Empty /\ reminders = Empty
    /\ req = Idle /\ resp = "none" /\ call = NoCall
    /\ seq = NoIds /\ life = [i \in ReminderIds |-> "none"]
    /\ NoVerify
    /\ NoGenerate

\* a caller of schedule_reminder; each id is notified about MaxNotify times
\* at most, to keep the counters finite
ApiSchedule(reminder_id, scheduled_time) ==
    /\ notified[reminder_id] < MaxNotify
    /\ jobs' = ScheduleReminder(jobs, reminder_id, scheduled_time)
    /\ exc' = "none"
    /\ life' = Registered(life, {reminder_id})
    /\ call' = [call |-> "schedule_reminder", id |-> reminder_id,
                had |-> JobsOf(jobs, reminder_id) # {}]
    /\ UNCHANGED <<hvars, notified, dvars, req, resp, vvars, pvars>>

\* a caller of unschedule_reminder
ApiUnschedule(reminder_id) ==
    /\ LET r == UnscheduleReminder(jobs, reminder_id)
       IN /\ jobs' = r.jobs
          /\ exc' = r.exc
          /\ life' = Cancelled(life, IF r.removed THEN {reminder_id} ELSE {})
    /\ call' = [call |-> "unschedule_reminder", id |-> reminder_id,
                had |-> JobsOf(jobs, reminder_id) # {}]
    /\ UNCHANGED <<hvars, notified, dvars, req, resp, vvars, pvars>>

\* the run dates the callers ask for: passed, next tick, the tick after
ApiTimes == {LocalNow - TickHours, LocalNow + TickHours, LocalNow + 2 * TickHours}

SchedNext ==
    \/ \E i \in ReminderIds, t \in ApiTimes : ApiSchedule(i, t)
    \/ \E i \in ReminderIds : ApiUnschedule(i)
    \/ \E j \in jobs : Fire(j)
    \/ \E j \in jobs : Misfire(j)
    \/ clock < SchedClock /\ Tick

SpecSched == SchedInit /\ [][SchedNext]_vars

(***************************************************************************)
(* src/app.py: generate_medicine_reminders                                 *)
(***************************************************************************)
IsSpace(c) == c \in {" ", "\t", "\n"}

\* str.lower() on one character
LowerChar(c) ==
    IF c \in Range(Upper)
    THEN Lower[CHOOSE i \in DOMAIN Upper : Upper[i] = c]
    ELSE c

\* str.lower()
ToLower(s) == [i \in DOMAIN s |-> LowerChar(s[i])]

\* s.split('x')[0]: what precedes the first 'x' (all of s when there is none)
BeforeFirstX(s) ==
    LET xs == {i \in DOMAIN s : s[i] = "x"}
    IN IF xs = {} THEN s
       ELSE SubSeq(s, 1, (CHOOSE i \in xs : \A j \in xs : i <= j) - 1)

\* str.strip()
RECURSIVE Strip(_)
Strip(s) ==
    IF s = <<>> THEN s
    ELSE IF IsSpace(s[1]) THEN Strip(Tail(s))
    ELSE IF IsSpace(s[Len(s)]) THEN Strip(SubSeq(s, 1, Len(s) - 1))
    ELSE s

\* int(s): [ok, value]; ok is FALSE where int raises ValueError.  Blanks
\* around the number and one sign are accepted.
ParseInt(s) ==
    LET t == Strip(s)
        signed == t # <<>> /\ t[1] \in {"+", "-"}
        body == IF signed THEN Tail(t) ELSE t
    IN IF body # <<>> /\ AllDigits(body)
       THEN [ok |-> TRUE,
             value |-> IF signed /\ t[1] = "-" THEN 0 - NumVal(body) ELSE NumVal(body)]
       ELSE [ok |-> FALSE, value |-> 0]

\* lines 306-312: times_per_day
TimesPerDay(timing) ==
    IF Contains(ToLower(timing), <<"x">>)
    THEN LET n == ParseInt(BeforeFirstX(ToLower(timing)))
         IN IF n.ok THEN n.value ELSE 1
    ELSE 1

\* line 321: the hour of a slot
SlotHour(slot, times_per_day) == 6 + (slot * (16 \div Max(1, times_per_day)))

\* lines 318-319: the (day, slot) pairs in the order the loops visit them
DaySlots(times_per_day, duration_days) ==
    IF times_per_day <= 0 \/ duration_days <= 0 THEN <<>>
    ELSE [k \in 1..(duration_days * times_per_day) |->
             [day |-> (k - 1) \div times_per_day, slot |-> (k - 1) % times_per_day]]

\* line 322: start_date + timedelta(days=day, hours=hour)
ReminderTime(start_date, ds, times_per_day) ==
    start_date + 24 * ds.day + SlotHour(ds.slot, times_per_day)

\* lines 314-331: the reminder times of reminders_to_create, in order, for
\* a given times_per_day.  start_date is datetime.now(); the filter compares
\* with datetime.utcnow().
SlotsToCreate(times_per_day, duration_days, now, utcnow) ==
    LET all == DaySlots(times_per_day, duration_days)
        times == [k \in DOMAIN all |-> ReminderTime(now, all[k], times_per_day)]
        Kept(t) == t > utcnow
    IN SelectSeq(times, Kept)

\* lines 306-331: from the timing text to reminders_to_create
RemindersToCreate(timing, duration_days, now, utcnow) ==
    SlotsToCreate(TimesPerDay(timing), duration_days, now, utcnow)

(***************************************************************************)
(* generate_medicine_reminders called on its own, up to the commit         *)
(***************************************************************************)
\* the timing texts the call is tried on
GenTimings == {
    <<"3","x","/","d","a","y">>,
    <<"2","x","/","d","a","y">>,
    <<"1","x","/","d","a","y">>,
    <<"0","x","/","d","a","y">>,
    <<"-","1","x","/","d","a","y">>,
    <<" ","2"," ","x","/","d","a","y">>,
    <<"2","X"," ","d","a","i","l","y">>,
    <<"m","o","r","n","i","n","g",","," ","e","v","e","n","i","n","g">>,
    <<"t","a","k","e"," ","2","x","/","d","a","y">>,
    <<"2",".","5","x">>,
    <<"x">>,
    <<>> }

\* the durations the call is tried on
GenDurations == {-1, 0, 1, 2}

GenInit ==
    /\ clock = 0 /\ tz \in TimeZones /\ up = TRUE /\ running = TRUE
    /\ jobs = {} /\ notified = [i \in ReminderIds |-> 0] /\ exc = "none"
    /\ prescriptions = Empty /\ medicines = Empty /\ reminders = Empty
    /\ req = Idle /\ resp = "none" /\ call = NoCall
    /\ seq = NoIds /\ life = [i \in ReminderIds |-> "none"]
    /\ NoVerify
    /\ gtiming \in GenTimings /\ gdays \in GenDurations
    /\ gtpd = 1 /\ gslots = <<>> /\ gpc = "parse"

\* lines 305-312
GenParse ==
    /\ gpc = "parse"
    /\ gtpd' = TimesPerDay(gtiming)
    /\ gpc' = "build"
    /\ UNCHANGED <<gtiming, gdays, gslots, vvars, svars>>

\* lines 314-331
GenBuild ==
    /\ gpc = "build"
    /\ gslots' = SlotsToCreate(gtpd, gdays, LocalNow, clock)
    /\ gpc' = "commit"
    /\ UNCHANGED <<gtiming, gdays, gtpd, vvars, svars>>

GenNext == GenParse \/ GenBuild

SpecGen == GenInit /\ [][GenNext]_vars

(***************************************************************************)
(* The process: src/app.py lines 928-950, src/wsgi.py                      *)
(***************************************************************************)
\* the timing texts and durations the requests of the model carry
TimingValues == { <<"2","x","/","d","a","y">>, <<"1","x","/","d","a","y">> }
DurationValues == {1}

\* the most reminders a medicine can get
MostReminders(med) == Max(0, TimesPerDay(med.timing)) * Max(0, med.duration)

RECURSIVE SumMost(_)
SumMost(meds) ==
    IF meds = <<>> THEN 0 ELSE MostReminders(Head(meds)) + SumMost(Tail(meds))

\* the reminder ids ever committed
Committed == 1..seq.reminders

\* a slip: the recovery query without the status filter
PendingAfter_AnyStatus(now) ==
    {i \in DOMAIN reminders : reminders[i].reminder_time > now}

\* scheduler.py lines 101-104: the rows the recovery query returns
PendingAfter(now) ==
    {i \in DOMAIN reminders :
        reminders[i].status = "pending" /\ reminders[i].reminder_time > now}

RECURSIVE ScheduleAll(_, _)
\* schedule_reminder for each Reminder object [id, reminder_time] of a list
ScheduleAll(tbl, objs) ==
    IF objs = <<>> THEN tbl
    ELSE ScheduleAll(
            ScheduleReminder(tbl, Head(objs).id, Head(objs).reminder_time),
            Tail(objs))

\* the Reminder objects loaded for a list of ids
Loaded(ids) ==
    [k \in DOMAIN ids |->
        [id |-> ids[k], reminder_time |-> reminders[ids[k]].reminder_time]]

\* scheduler.py lines 90-116: reschedule_existing_reminders, with
\* now = datetime.utcnow()
RescheduleExisting(tbl) ==
    ScheduleAll(tbl, Loaded(SortedIds(PendingAfter(clock))))

ProgramInit ==
    /\ clock = 0 /\ tz \in TimeZones /\ up = FALSE /\ running = FALSE
    /\ jobs = {} /\ notified = [i \in ReminderIds |-> 0] /\ exc = "none"
    /\ prescriptions = Empty /\ medicines = Empty /\ reminders = Empty
    /\ seq = NoIds
    /\ req = Idle /\ resp = "none" /\ call = NoCall
    /\ life = [i \in ReminderIds |-> "none"]
    /\ NoVerify
    /\ NoGenerate

\* python app.py (lines 928-948): start_scheduler, then
\* reschedule_existing_reminders, then the server
StartMain ==
    /\ ~up
    /\ up' = TRUE /\ running' = TRUE
    /\ jobs' = RescheduleExisting({})
    /\ life' = Registered(life, PendingAfter(clock))
    /\ exc' = "none"
    /\ resp' = "none"
    /\ UNCHANGED <<call, clock, tz, notified, dvars, req, vvars, pvars>>

\* wsgi.py line 15: "from app import app" and nothing else: the scheduler is
\* not started and nothing is rescheduled
StartWsgi ==
    /\ ~up
    /\ up' = TRUE /\ running' = FALSE
    /\ jobs' = {}
    /\ resp' = "none"
    /\ UNCHANGED <<call, clock, tz, notified, exc, dvars, req, gvars, vvars, pvars>>

\* the process ends (app.py line 950, or a crash): the job table is memory
Stop ==
    /\ up
    /\ up' = FALSE /\ running' = FALSE
    /\ jobs' = {}
    /\ req' = Idle
    /\ resp' = "none"
    /\ UNCHANGED <<call, clock, tz, notified, exc, dvars, gvars, vvars, pvars>>

(***************************************************************************)
(* The request handlers of src/app.py.  One request is served at a time.   *)
(* save_prescription runs in steps (its commit; then per medicine the      *)
(* commit of the reminders and their scheduling), and the scheduler's      *)
(* worker thread and the end of the process interleave with them; the      *)
(* other handlers are one step each.                                       *)
(***************************************************************************)
\* the server takes the next request once the response to the last is out
Serving == up /\ req = Idle /\ resp = "none"

\* the response has reached the client
Return ==
    /\ resp # "none"
    /\ resp' = "none"
    /\ UNCHANGED <<call, hvars, jvars, dvars, req, gvars, vvars, pvars>>

\* the table t without the keys in gone
Without(t, gone) == [k \in DOMAIN t \ gone |-> t[k]]

\* a slip: the rows are committed one at a time and only the first gets in
With_FirstOnly(t, u) ==
    LET first == {k \in DOMAIN u : \A x \in DOMAIN u : k <= x}
    IN [k \in DOMAIN t \cup first |-> IF k \in first THEN u[k] ELSE t[k]]

\* the table t extended by the table u
With(t, u) == [k \in DOMAIN t \cup DOMAIN u |-> IF k \in DOMAIN u THEN u[k] ELSE t[k]]

\* lines 543-569 of save_prescription: the prescription and its medicines
\* are added and committed; a failing commit is rolled back (lines 581-584)
SavePrescription(user_id, meds, ok) ==
    /\ Serving
    /\ clock < SaveBefore
    /\ seq.medicines + Len(meds) <= MaxMedicines
    /\ seq.reminders + SumMost(meds) <= MaxReminders
    /\ IF ok
       THEN LET p == seq.prescriptions + 1
                new == [k \in 1..Len(meds) |->
                           [prescription_id |-> p, user_id |-> user_id,
                            timing |-> meds[k].timing, duration |-> meds[k].duration]]
                ids == [k \in 1..Len(meds) |-> seq.medicines + k]
            IN /\ prescriptions' = With(prescriptions, [x \in {p} |-> [user_id |-> user_id]])
               /\ medicines' = With(medicines,
                      [x \in Range(ids) |-> new[x - seq.medicines]])
               /\ seq' = [seq EXCEPT !.prescriptions = p,
                                     !.medicines = @ + Len(meds)]
               /\ req' = [op |-> "save", user_id |-> user_id, medicine_ids |-> ids,
                          i |-> 1, step |-> "generate", batch |-> <<>>]
               /\ resp' = "none"
       ELSE /\ resp' = "400"
            /\ UNCHANGED <<prescriptions, medicines, seq, req>>
    /\ UNCHANGED <<call, hvars, jvars, reminders, gvars, vvars, pvars>>

\* the request moves on to its next medicine, or returns (line 580)
AfterMedicine(r) ==
    IF r.i < Len(r.medicine_ids)
    THEN [next |-> [r EXCEPT !.i = @ + 1, !.step = "generate", !.batch = <<>>],
          resp |-> "none"]
    ELSE [next |-> Idle, resp |-> "200"]

\* a slip: the scheduling loop runs although the commit failed
ToSchedule_Regardless(ok, objs) == objs

\* what follows the commit of line 336: the scheduling loop (lines 339-340)
\* over the committed Reminder objects, or the except clause (lines 343-344)
ToSchedule(ok, objs) == IF ok THEN objs ELSE <<>>

\* lines 301-336 of generate_medicine_reminders for the request's current
\* medicine: reminders_to_create is built, added and committed
GenerateCommit(ok) ==
    /\ up /\ req.op = "save" /\ req.step = "generate"
    /\ LET m == req.medicine_ids[req.i]
       IN IF m \notin DOMAIN medicines
          THEN \* lines 303-304
               /\ req' = AfterMedicine(req).next
               /\ resp' = AfterMedicine(req).resp
               /\ UNCHANGED <<reminders, seq>>
          ELSE LET times == RemindersToCreate(medicines[m].timing,
                                medicines[m].duration, LocalNow, clock)
                   ids == [k \in 1..Len(times) |-> seq.reminders + k]
                   rows == [x \in Range(ids) |->
                               [medicine_id |-> m, user_id |-> req.user_id,
                                reminder_time |-> times[x - seq.reminders],
                                status |-> "pending"]]
               IN IF times = <<>>
                  THEN \* line 334: nothing to add
                       /\ ok
                       /\ req' = AfterMedicine(req).next
                       /\ resp' = AfterMedicine(req).resp
                       /\ UNCHANGED <<reminders, seq>>
                  ELSE /\ IF ok
                          THEN /\ reminders' = With(reminders, rows)
                               /\ seq' = [seq EXCEPT !.reminders = @ + Len(times)]
                          ELSE UNCHANGED <<reminders, seq>>
                       /\ req' = [req EXCEPT !.step = "schedule",
                                             !.batch = ToSchedule(ok,
                                                 [k \in DOMAIN ids |->
                                                     [id |-> ids[k],
                                                      reminder_time |-> times[k]]])]
                       /\ resp' = "none"
    /\ UNCHANGED <<call, hvars, jvars, prescriptions, medicines, gvars, vvars, pvars>>

\* a slip: schedule_reminder without its try/except: the error of add_job
\* leaves the function
ScheduleReminderOrFail_Uncaught(tbl, reminder_id, scheduled_time, raises) ==
    IF raises
    THEN [jobs |-> tbl, exc |-> "Exception"]
    ELSE [jobs |-> ScheduleReminder(tbl, reminder_id, scheduled_time), exc |-> "none"]

\* scheduler.py lines 46-58: schedule_reminder when add_job may raise (the
\* job store refuses the job): the except clause logs the error and returns
ScheduleReminderOrFail(tbl, reminder_id, scheduled_time, raises) ==
    IF raises
    THEN [jobs |-> tbl, exc |-> "none"]
    ELSE [jobs |-> ScheduleReminder(tbl, reminder_id, scheduled_time), exc |-> "none"]

RECURSIVE ScheduleAllOrFail(_, _, _)
\* lines 339-340: the scheduling loop when add_job raises for the ids in
\* fails; an error that left schedule_reminder would end the loop (it would
\* be caught by the except clause of lines 343-344)
ScheduleAllOrFail(tbl, objs, fails) ==
    IF objs = <<>> THEN [jobs |-> tbl, exc |-> "none", done |-> {}]
    ELSE LET first == ScheduleReminderOrFail(tbl, Head(objs).id,
                          Head(objs).reminder_time, Head(objs).id \in fails)
             rest == ScheduleAllOrFail(first.jobs, Tail(objs), fails)
         IN IF first.exc # "none"
            THEN [jobs |-> first.jobs, exc |-> first.exc, done |-> {}]
            ELSE [jobs |-> rest.jobs, exc |-> rest.exc,
                  done |-> rest.done \cup
                      (IF Head(objs).id \in fails THEN {} ELSE {Head(objs).id})]

\* lines 338-344: schedule_reminder for every reminder of the batch, with the
\* id and the reminder_time of the object that was committed; add_job raises
\* for the reminders in fails
GenerateScheduleWith(fails) ==
    /\ up /\ req.op = "save" /\ req.step = "schedule"
    /\ fails \subseteq {o.id : o \in Range(req.batch)}
    /\ LET r == ScheduleAllOrFail(jobs, req.batch, fails)
       IN /\ jobs' = r.jobs
          /\ life' = Registered(life, r.done)
          /\ exc' = r.exc
    /\ req' = AfterMedicine(req).next
    /\ resp' = AfterMedicine(req).resp
    /\ UNCHANGED <<call, hvars, notified, dvars, vvars, pvars>>

\* the scheduling loop when add_job works
GenerateSchedule == GenerateScheduleWith({})

\* the scheduling loop when add_job raises for one reminder or more
GenerateScheduleFailing ==
    \E fails \in SUBSET ReminderIds : fails # {} /\ GenerateScheduleWith(fails)

\* the reminders of a set of medicines
RemindersOf(meds) == {i \in DOMAIN reminders : reminders[i].medicine_id \in meds}

\* the medicines of a prescription
MedicinesOf(p) == {m \in DOMAIN medicines : medicines[m].prescription_id = p}

\* a slip: mark_reminder_taken and skip_reminder without the ownership test
SetStatus_NoOwnerCheck(user_id, id, status, ok) ==
    /\ Serving
    /\ IF id \notin DOMAIN reminders
       THEN /\ resp' = "404"
            /\ UNCHANGED <<reminders, jobs, exc, life>>
       ELSE IF ok
       THEN LET r == UnscheduleReminder(jobs, id)
            IN /\ reminders' = [reminders EXCEPT ![id].status = status]
               /\ jobs' = r.jobs
               /\ exc' = r.exc
               /\ life' = Cancelled(life, IF r.removed THEN {id} ELSE {})
               /\ resp' = IF r.exc = "none" THEN "200" ELSE "400"
       ELSE /\ resp' = "400"
            /\ UNCHANGED <<reminders, jobs, exc, life>>
    /\ UNCHANGED <<call, hvars, notified, prescriptions, medicines, seq, req, vvars, pvars>>

\* lines 790-814 and 817-835: mark_reminder_taken and skip_reminder.  404 for
\* an unknown id, 403 for another user's reminder; the status is committed
\* and then the job unscheduled; a failing commit is rolled back and
\* answered with 400, the job left alone.
SetStatus(user_id, id, status, ok) ==
    /\ Serving
    /\ IF id \notin DOMAIN reminders
       THEN /\ resp' = "404"
            /\ UNCHANGED <<reminders, jobs, exc, life>>
       ELSE IF reminders[id].user_id # user_id
       THEN /\ resp' = "403"
            /\ UNCHANGED <<reminders, jobs, exc, life>>
       ELSE IF ok
       THEN LET r == UnscheduleReminder(jobs, id)
            IN /\ reminders' = [reminders EXCEPT ![id].status = status]
               /\ jobs' = r.jobs
               /\ exc' = r.exc
               /\ life' = Cancelled(life, IF r.removed THEN {id} ELSE {})
               /\ resp' = IF r.exc = "none" THEN "200" ELSE "400"
       ELSE /\ resp' = "400"
            /\ UNCHANGED <<reminders, jobs, exc, life>>
    /\ UNCHANGED <<call, hvars, notified, prescriptions, medicines, seq, req, vvars, pvars>>

MarkReminderTaken(user_id, id, ok) == SetStatus(user_id, id, "taken", ok)

SkipReminder(user_id, id, ok) == SetStatus(user_id, id, "skipped", ok)

\* lines 632-656 of delete_prescription and 659-687 of delete_medicine: after
\* the ownership check every reminder's job is unscheduled; then the row is
\* deleted with everything that hangs on it (cascade='all, delete-orphan')
\* and the deletion committed, or the failed commit is rolled back
Delete(user_id, kind, id, ok) ==
    /\ Serving
    /\ LET table == IF kind = "prescription" THEN prescriptions ELSE medicines
           meds == IF kind = "prescription" THEN MedicinesOf(id) ELSE {id}
       IN IF id \notin DOMAIN table
          THEN /\ resp' = "404"
               /\ UNCHANGED <<jobs, exc, life, prescriptions, medicines, reminders>>
          ELSE IF table[id].user_id # user_id
          THEN /\ resp' = "302 Unauthorized"
               /\ UNCHANGED <<jobs, exc, life, prescriptions, medicines, reminders>>
          ELSE LET r == UnscheduleAll(jobs, SortedIds(RemindersOf(meds)))
               IN /\ jobs' = r.jobs
                  /\ exc' = r.exc
                  /\ life' = Cancelled(life, r.removed)
                  /\ IF ok
                     THEN /\ prescriptions' = IF kind = "prescription"
                                              THEN Without(prescriptions, {id})
                                              ELSE prescriptions
                          /\ medicines' = Without(medicines, meds)
                          /\ reminders' = Without(reminders, RemindersOf(meds))
                          /\ resp' = "302 deleted"
                     ELSE /\ resp' = "302 error"
                          /\ UNCHANGED <<prescriptions, medicines, reminders>>
    /\ UNCHANGED <<call, hvars, notified, seq, req, vvars, pvars>>

DeletePrescription(user_id, id, ok) == Delete(user_id, "prescription", id, ok)

DeleteMedicine(user_id, id, ok) == Delete(user_id, "medicine", id, ok)

\* the lists of medicines a save request carries
MedicineLists ==
    LET one == [timing : TimingValues, duration : DurationValues]
    IN {<<a>> : a \in one} \cup {<<a, b>> : a \in one, b \in one}

Next ==
    \/ StartMain
    \/ Stop
    \/ Tick
    \/ \E j \in jobs : Fire(j)
    \/ \E j \in jobs : Misfire(j)
    \/ \E u \in Owners, meds \in MedicineLists, ok \in BOOLEAN :
          SavePrescription(u, meds, ok)
    \/ \E ok \in BOOLEAN : GenerateCommit(ok)
    \/ GenerateSchedule
    \/ \E u \in Users, i \in ReminderIds, ok \in BOOLEAN : MarkReminderTaken(u, i, ok)
    \/ \E u \in Users, i \in ReminderIds, ok \in BOOLEAN : SkipReminder(u, i, ok)
    \/ \E u \in Users, i \in MedicineIds, ok \in BOOLEAN : DeletePrescription(u, i, ok)
    \/ \E u \in Users, i \in MedicineIds, ok \in BOOLEAN : DeleteMedicine(u, i, ok)
    \/ Return

\* the deployment "python app.py"
Spec == ProgramInit /\ [][Next]_vars

\* the program on a host two hours east of UTC (the zone plays no part in
\* what a failure of add_job does; this one has the worker both run and
\* miss jobs)
FaultInit ==
    /\ ProgramInit
    /\ tz = 2

\* the deployment "python app.py" with a job store that may refuse a job
SpecFault == FaultInit /\ [][Next \/ GenerateScheduleFailing]_vars

\* the deployments "python app.py" and WSGI (gunicorn wsgi:app), mixed
SpecWsgi == ProgramInit /\ [][Next \/ StartWsgi]_vars

\* what the threads of a live process do without being asked: the clock
\* goes on, the scheduler's worker handles a job that is due, a request
\* that was taken is served to its end
Fairness ==
    /\ WF_vars(Tick)
    /\ WF_vars(\E j \in jobs : Fire(j))
    /\ WF_vars(\E j \in jobs : Misfire(j))
    /\ WF_vars(\E ok \in BOOLEAN : GenerateCommit(ok))
    /\ WF_vars(GenerateSchedule)
    /\ WF_vars(Return)

\* both deployments, with the threads making progress
SpecWsgiLive == ProgramInit /\ [][Next \/ StartWsgi]_vars /\ Fairness

\* the deployment "python app.py" alone, with the threads making progress
SpecLive == ProgramInit /\ [][Next]_vars /\ Fairness

(***************************************************************************)
(* verify_medicine_authenticity                                            *)
(***************************************************************************)
MG_VALID  == <<"M","G","-","V","A","L","I","D">>
VALID     == <<"V","A","L","I","D">>
FAKE      == <<"F","A","K","E">>
FRAUD     == <<"F","R","A","U","D">>
TEST_FAKE == <<"T","E","S","T","-","F","A","K","E">>
ERROR     == <<"E","R","R","O","R">>
UNKNOWN_BATCH == <<"U","N","K","N","O","W","N">>
Unknown_Manufacturer == <<"U","n","k","n","o","w","n">>
Not_detected == <<"N","o","t"," ","d","e","t","e","c","t","e","d">>

\* barcode_data.get(key, default)
Get(d, key, default) == IF key \in DOMAIN d THEN d[key] ELSE default

Detail(msg, arg) == [msg |-> msg, arg |-> arg]

\* lines 217-219: the locals before any rule runs
InitialResult == [status |-> "suspicious", confidence |-> 50, details |-> <<>>]

\* lines 231, 235, 239: the three marker tests on the upper-cased first code
HasValidMarker(code) == Contains(code, MG_VALID) \/ StartsWith(code, VALID)
HasFakeMarker(code) ==
    Contains(code, FAKE) \/ Contains(code, FRAUD) \/ Contains(code, TEST_FAKE)
HasErrorMarker(code) == Contains(code, ERROR)

\* lines 226-250, Rule 1: classify the first code
Rule1(r, codes) ==
    IF Len(codes) > 0
    THEN LET code == ToUpper(codes[1]) IN
         IF HasValidMarker(code)
         THEN [status |-> "valid", confidence |-> 95,
               details |-> Append(r.details,
                   Detail("Valid MediGuard barcode format detected", <<>>))]
         ELSE IF HasFakeMarker(code)
         THEN [status |-> "fake", confidence |-> 99,
               details |-> Append(r.details,
                   Detail("Counterfeited medicine pattern detected", <<>>))]
         ELSE IF HasErrorMarker(code)
         THEN [status |-> "suspicious", confidence |-> 20,
               details |-> Append(r.details,
                   Detail("Error scanning barcode - unable to verify", <<>>))]
         ELSE [status |-> "valid", confidence |-> 80,
               details |-> Append(r.details,
                   Detail("Barcode recognized", Prefix(code, 20)))]
    ELSE [status |-> "suspicious", confidence |-> 30,
          details |-> Append(r.details,
              Detail("No barcode detected in image", <<>>))]

\* line 254: the batch is well formed
BatchWellFormed(batch) ==
    Len(batch) >= 8 /\ (IsAlpha(batch[1]) \/ IsDigit(batch[1]))

\* a slip: the well-formed branch adds 10 without the cap at 95
Rule2_Uncapped(r, batch) ==
    IF batch # <<>> /\ batch # UNKNOWN_BATCH
    THEN IF BatchWellFormed(batch)
         THEN [r EXCEPT !.details = Append(@, Detail("Batch format valid", batch)),
                        !.confidence = @ + 10]
         ELSE [r EXCEPT !.details = Append(@, Detail("Batch format unusual", batch)),
                        !.confidence = IF @ > 40 THEN Max(@ - 10, 40) ELSE @]
    ELSE r

\* a slip: the unusual-batch branch takes 20 off instead of 10
Rule2_Minus20(r, batch) ==
    IF batch # <<>> /\ batch # UNKNOWN_BATCH
    THEN IF BatchWellFormed(batch)
         THEN [r EXCEPT !.details = Append(@, Detail("Batch format valid", batch)),
                        !.confidence = Min(95, @ + 10)]
         ELSE [r EXCEPT !.details = Append(@, Detail("Batch format unusual", batch)),
                        !.confidence = IF @ > 40 THEN Max(@ - 20, 40) ELSE @]
    ELSE r

\* lines 252-260, Rule 2: batch number format
Rule2(r, batch) ==
    IF batch # <<>> /\ batch # UNKNOWN_BATCH
    THEN IF BatchWellFormed(batch)
         THEN [r EXCEPT !.details = Append(@, Detail("Batch format valid", batch)),
                        !.confidence = Min(95, @ + 10)]
         ELSE [r EXCEPT !.details = Append(@, Detail("Batch format unusual", batch)),
                        !.confidence = IF @ > 40 THEN Max(@ - 10, 40) ELSE @]
    ELSE r

\* a slip: exp_date >= now, so that an expiry of exactly now counts as valid
ExpiryValid_OrEqual(exp_date, now) ==
    DateAfterNow(exp_date, now)
    \/ (exp_date.y = now.y /\ exp_date.m = now.m /\ exp_date.d = now.d /\ now.tod = 0)

\* line 266: the parsed expiry is still ahead of now
ExpiryValid(exp_date, now) == DateAfterNow(exp_date, now)

\* a slip: an expiry that is still ahead makes the status 'valid'
Rule3_Revalidates(r, expiry, now) ==
    IF expiry # <<>> /\ expiry # Not_detected
    THEN LET exp_date == Strptime(expiry) IN
         IF exp_date = NoDate
         THEN [r EXCEPT !.details =
                   Append(@, Detail("Could not parse expiry date", expiry))]
         ELSE IF ExpiryValid(exp_date, now)
         THEN [status |-> "valid", confidence |-> Min(95, r.confidence + 5),
               details |-> Append(r.details, Detail("Expiry valid until", expiry))]
         ELSE [status |-> "fake", confidence |-> 95,
               details |-> Append(r.details,
                   Detail("Medicine already expired on", expiry))]
    ELSE r

\* a slip: an expiry that does not parse is taken for an expired one
Rule3_UnparsedIsExpired(r, expiry, now) ==
    IF expiry # <<>> /\ expiry # Not_detected
    THEN LET exp_date == Strptime(expiry) IN
         IF exp_date # NoDate /\ ExpiryValid(exp_date, now)
         THEN [r EXCEPT !.details = Append(@, Detail("Expiry valid until", expiry)),
                        !.confidence = Min(95, @ + 5)]
         ELSE [status |-> "fake", confidence |-> 95,
               details |-> Append(r.details,
                   Detail("Medicine already expired on", expiry))]
    ELSE r

\* lines 262-274, Rule 3: expiry date
Rule3(r, expiry, now) ==
    IF expiry # <<>> /\ expiry # Not_detected
    THEN LET exp_date == Strptime(expiry) IN
         IF exp_date = NoDate
         THEN [r EXCEPT !.details =
                   Append(@, Detail("Could not parse expiry date", expiry))]
         ELSE IF ExpiryValid(exp_date, now)
         THEN [r EXCEPT !.details = Append(@, Detail("Expiry valid until", expiry)),
                        !.confidence = Min(95, @ + 5)]
         ELSE [status |-> "fake", confidence |-> 95,
               details |-> Append(r.details,
                   Detail("Medicine already expired on", expiry))]
    ELSE r

\* a slip: the manufacturer adds 5 without the cap at 95
Rule4_Uncapped(r, manufacturer) ==
    IF manufacturer # <<>> /\ Len(manufacturer) > 3
       /\ manufacturer # Unknown_Manufacturer
    THEN [r EXCEPT !.details = Append(@, Detail("Manufacturer", manufacturer)),
                   !.confidence = @ + 5]
    ELSE r

\* lines 276-279, Rule 4: manufacturer
Rule4(r, manufacturer) ==
    IF manufacturer # <<>> /\ Len(manufacturer) > 3
       /\ manufacturer # Unknown_Manufacturer
    THEN [r EXCEPT !.details = Append(@, Detail("Manufacturer", manufacturer)),
                   !.confidence = Min(95, @ + 5)]
    ELSE r

\* a slip: the advisory is put in front of the details
Finalize_Prepends(r) ==
    IF r.status = "suspicious"
    THEN IF r.confidence < 40
         THEN [r EXCEPT !.details = <<Detail(
                  "Unable to verify. Recommend checking with pharmacist.", <<>>)>> \o @]
         ELSE [r EXCEPT !.details = <<Detail(
                  "Verification inconclusive. Check with pharmacist if unsure.", <<>>)>> \o @]
    ELSE r

\* lines 281-286: final determination
Finalize(r) ==
    IF r.status = "suspicious"
    THEN IF r.confidence < 40
         THEN [r EXCEPT !.details = Append(@,
                  Detail("Unable to verify. Recommend checking with pharmacist.", <<>>))]
         ELSE [r EXCEPT !.details = Append(@,
                  Detail("Verification inconclusive. Check with pharmacist if unsure.", <<>>))]
    ELSE r

(***************************************************************************)
(* The scans the call is tried on                                          *)
(***************************************************************************)
CodeValues == {
    <<"M","G","-","V","A","L","I","D","-","1">>,
    <<"v","a","l","i","d","9">>,
    <<"X","V","A","L","I","D">>,
    <<"F","A","K","E","-","1">>,
    <<"f","r","a","u","d">>,
    <<"M","G","-","V","A","L","I","D","-","F","A","K","E">>,
    <<"E","R","R","O","R","-","S","C","A","N">>,
    <<"A","B","C","1","2","3">>,
    <<>> }

CodeLists ==
    {<<>>} \cup {<<c>> : c \in CodeValues}
           \cup {<<c, <<"F","A","K","E","-","1">> >> :
                    c \in {<<"A","B","C","1","2","3">>,
                           <<"M","G","-","V","A","L","I","D","-","1">>}}

BatchValues == {
    <<>>,
    UNKNOWN_BATCH,
    <<"B","A","T","C","H","2","0","2","4","0","0","1">>,
    <<"2","0","2","4","0","0","1","1">>,
    <<"B","1">>,
    <<"#","1","2","3","4","5","6","7">> }

ExpiryValues == {
    <<>>,
    Not_detected,
    <<"3","1","/","1","2","/","2","0","2","5">>,
    <<"2","0","2","4","-","0","2","-","3","0">>,
    <<"2","0","2","3","-","1","2","-","3","1">>,
    <<"2","0","2","4","-","0","1","-","0","1">>,
    <<"2","0","2","4","-","0","1","-","0","2">>,
    <<"2","0","2","6","-","1","2","-","3","1">> }

ManufacturerValues == {
    <<>>,
    Unknown_Manufacturer,
    <<"U","N","K","N","O","W","N">>,
    <<"a","b","c">>,
    <<"M","e","d","i","C","o","r","p">> }

NowValues == {
    [y |-> 2024, m |-> 1, d |-> 1, tod |-> 0],
    [y |-> 2024, m |-> 1, d |-> 1, tod |-> 1] }

ScanKeys == {"codes", "batch", "expiry", "manufacturer"}

\* the dict holding the keys K of the four values
MakeScan(K, c, b, e, m) ==
    LET v == [codes |-> c, batch |-> b, expiry |-> e, manufacturer |-> m]
    IN [k \in K |-> v[k]]

\* lines 221-224: the four reads of barcode_data, with their defaults
ScanCodes(d) == Get(d, "codes", <<>>)
ScanBatch(d) == Get(d, "batch", <<>>)
ScanExpiry(d) == Get(d, "expiry", <<>>)
ScanManufacturer(d) == Get(d, "manufacturer", <<>>)

\* lines 207-288: the whole call on the scan d, with datetime.now() = now
Verify(d, now) ==
    Finalize(Rule4(Rule3(Rule2(Rule1(InitialResult, ScanCodes(d)),
                               ScanBatch(d)),
                         ScanExpiry(d), now),
                   ScanManufacturer(d)))

VerifyInit ==
    /\ \E K \in SUBSET ScanKeys, c \in CodeLists, b \in BatchValues,
          e \in ExpiryValues, m \in ManufacturerValues :
          vscan = MakeScan(K, c, b, e, m)
    /\ vnow \in NowValues
    /\ vpc = "rule1"
    /\ vres = InitialResult
    /\ NoProgram
    /\ NoGenerate

VerifyRule1 ==
    /\ vpc = "rule1"
    /\ vres' = Rule1(vres, ScanCodes(vscan))
    /\ vpc' = "rule2"
    /\ UNCHANGED <<vscan, vnow, svars, pvars>>

VerifyRule2 ==
    /\ vpc = "rule2"
    /\ vres' = Rule2(vres, ScanBatch(vscan))
    /\ vpc' = "rule3"
    /\ UNCHANGED <<vscan, vnow, svars, pvars>>

VerifyRule3 ==
    /\ vpc = "rule3"
    /\ vres' = Rule3(vres, ScanExpiry(vscan), vnow)
    /\ vpc' = "rule4"
    /\ UNCHANGED <<vscan, vnow, svars, pvars>>

VerifyRule4 ==
    /\ vpc = "rule4"
    /\ vres' = Rule4(vres, ScanManufacturer(vscan))
    /\ vpc' = "final"
    /\ UNCHANGED <<vscan, vnow, svars, pvars>>

VerifyFinal ==
    /\ vpc = "final"
    /\ vres' = Finalize(vres)
    /\ vpc' = "return"
    /\ UNCHANGED <<vscan, vnow, svars, pvars>>

VerifyNext ==
    \/ VerifyRule1
    \/ VerifyRule2
    \/ VerifyRule3
    \/ VerifyRule4
    \/ VerifyFinal

SpecVerify == VerifyInit /\ [][VerifyNext]_vars

(***************************************************************************)
(* Properties of verify_medicine_authenticity (checked under SpecVerify)   *)
(***************************************************************************)
Returned == vpc = "return"

\* the scan's expiry parses as a calendar date
ExpiryParses == Strptime(ScanExpiry(vscan)) # NoDate

\* ... that is on or before the current time
ExpiryPast == ExpiryParses /\ ~DateAfterNow(Strptime(ScanExpiry(vscan)), vnow)

\* ... that is strictly in the future
ExpiryFuture == ExpiryParses /\ DateAfterNow(Strptime(ScanExpiry(vscan)), vnow)

\* the first code, upper-cased, carries a valid marker
FirstCodeValid ==
    /\ Len(ScanCodes(vscan)) > 0
    /\ LET code == ToUpper(ScanCodes(vscan)[1])
       IN Contains(code, MG_VALID) \/ StartsWith(code, VALID)

\* the batch is given, is not the sentinel, and is malformed
BatchMalformed ==
    LET b == ScanBatch(vscan)
    IN /\ b # <<>> /\ b # UNKNOWN_BATCH
       /\ ~(Len(b) >= 8 /\ (IsAlpha(b[1]) \/ IsDigit(b[1])))

\* the manufacturer is given, longer than 3 characters and not 'Unknown'
ManufacturerAccepted ==
    LET m == ScanManufacturer(vscan)
    IN m # <<>> /\ Len(m) > 3 /\ m # Unknown_Manufacturer

\* C8: a scan whose expiry parses as a date on or before now is returned as
\* 'fake' with confidence exactly 95, whatever the codes, batch and
\* manufacturer are.
C8_ExpiredIsFake95 ==
    (Returned /\ ExpiryPast) => (vres.status = "fake" /\ vres.confidence = 95)

\* an expired scan whose first code carries a valid marker, with a
\* well-formed batch and an accepted manufacturer, has been returned
C8_Witness ==
    /\ Returned /\ ExpiryPast /\ FirstCodeValid
    /\ ManufacturerAccepted /\ ~BatchMalformed /\ ScanBatch(vscan) # <<>>
    /\ vres.status = "fake"

\* C9 as stated: a valid marker in the first code and a future expiry give
\* 'valid' with confidence at least 95 for every batch and manufacturer.
C9_Original ==
    (Returned /\ FirstCodeValid /\ ExpiryFuture)
        => (vres.status = "valid" /\ vres.confidence >= 95)

\* C9 as amended: the status is 'valid' and the confidence is at least 90;
\* it is 95 unless the batch is malformed and the manufacturer is not
\* accepted, in which case it is 90.
C9_ValidAtLeast90 ==
    (Returned /\ FirstCodeValid /\ ExpiryFuture)
        => /\ vres.status = "valid"
           /\ vres.confidence =
                 (IF BatchMalformed /\ ~ManufacturerAccepted THEN 90 ELSE 95)

\* a valid-marker scan with a future expiry and a malformed batch and no
\* accepted manufacturer has been returned
C9_Witness ==
    /\ Returned /\ FirstCodeValid /\ ExpiryFuture
    /\ BatchMalformed /\ ~ManufacturerAccepted
    /\ vres.confidence = 90

\* C10: the returned confidence is an integer in 0..100 for every scan.
C10_ConfidenceRange == Returned => vres.confidence \in 0..100

\* the highest confidence (99: a fake marker in a dict that holds only
\* the codes) has been returned
C10_Witness ==
    /\ Returned
    /\ vres.confidence = 99
    /\ DOMAIN vscan = {"codes"}

(***************************************************************************)
(* Properties of schedule_reminder and unschedule_reminder (SpecSched)     *)
(***************************************************************************)
\* C3: schedule_reminder is an upsert keyed by reminder id: whatever calls
\* are made, the table never holds two jobs of one id, and a call leaves
\* exactly the job it built for its id, replacing the one that was there.
C3_Upsert ==
    [][\A i \in ReminderIds :
          /\ Cardinality(JobsOf(jobs', i)) <= 1
          /\ \A t \in ApiTimes :
                ApiSchedule(i, t) => JobsOf(jobs', i) = {NewJob(i, t)}]_vars

\* schedule_reminder has just been called for an id that had a job: the
\* table holds one job for it, next to the job of another id
C3_Witness ==
    /\ call.call = "schedule_reminder" /\ call.had
    /\ Cardinality(JobsOf(jobs, call.id)) = 1
    /\ \E j \in jobs : j.args # call.id

\* C4: unschedule_reminder for an id without a job lets no exception out
\* and leaves the job table as it was.
C4_UnscheduleAbsent ==
    [][\A i \in ReminderIds :
          (ApiUnschedule(i) /\ JobsOf(jobs, i) = {})
              => (jobs' = jobs /\ exc' = "none")]_vars

\* unschedule_reminder has just been called for an id without a job while
\* other ids have jobs
C4_Witness ==
    /\ call.call = "unschedule_reminder" /\ ~call.had
    /\ jobs # {} /\ exc = "none"

(***************************************************************************)
(* Properties of the reminder life cycle (Spec)                            *)
(***************************************************************************)
\* the instant, on the UTC clock, at which the job of a persisted reminder
\* falls due: its run date is the naive reminder_time, read in the host zone
FiringInstant(i) == reminders[i].reminder_time - tz

\* schedule_reminder was called for the reminder, and nothing has cancelled
\* it: no job of it was unscheduled, its row is there and still 'pending'
NeverCancelled(i) ==
    /\ life[i] = "scheduled"
    /\ i \in DOMAIN reminders
    /\ reminders[i].status = "pending"

\* C1: a reminder that was scheduled and never cancelled is notified exactly
\* once, restarts with recovery included: it is never notified twice, once
\* it was notified its job is not in the table, and when its firing instant
\* comes with the process running its job is in the table, to be run then.
C1_ExactlyOnce ==
    [][\A i \in ReminderIds :
          /\ NeverCancelled(i)' =>
                /\ notified'[i] <= 1
                /\ notified'[i] = 1 => JobsOf(jobs', i) = {}
          /\ (/\ NeverCancelled(i)
              /\ up /\ running
              /\ clock < FiringInstant(i) /\ clock' >= FiringInstant(i))
                => \E j \in JobsOf(jobs, i) : ~j.late]_vars

\* C2: fired and cancelled are final: once a reminder was notified, or its
\* job was unscheduled, no step registers a job for it or notifies it again.
C2_TerminalStatesFinal ==
    [][\A i \in ReminderIds :
          (notified[i] > 0 \/ life[i] = "cancelled")
              => (JobsOf(jobs', i) = {} /\ notified'[i] = notified[i])]_vars

\* C5: write-then-schedule: every job in the table is the job of a reminder
\* id that was committed to the store.
C5_WriteThenSchedule == \A j \in jobs : j.args \in Committed

\* save_prescription has just returned: generate_medicine_reminders has
\* committed reminders and scheduled a job for each of them
C5_Witness ==
    /\ resp = "200"
    /\ DOMAIN reminders # {}
    /\ \A i \in DOMAIN reminders :
          reminders[i].status = "pending" /\ JobsOf(jobs, i) # {}

\* C6: startup recovery registers a job for exactly the persisted reminders
\* that are 'pending' and whose firing instant is still to come.
C6_RecoveryExact ==
    [][StartMain =>
          \A i \in ReminderIds :
              JobsOf(jobs', i) # {}
                  <=> /\ i \in DOMAIN reminders
                      /\ reminders[i].status = "pending"
                      /\ FiringInstant(i) > clock]_vars

\* the text "2x/day"
TwicePerDay == <<"2", "x", "/", "d", "a", "y">>

\* C7: mark-taken sets the reminder's status to 'taken' and removes its job
\* and touches no other reminder or job; and a medicine with timing "2x/day"
\* and duration 1 gets two reminders, 6 and 14 hours after the generation,
\* both scheduled.
C7_MarkTakenFrame ==
    [][/\ \A i \in DOMAIN reminders :
             MarkReminderTaken(reminders[i].user_id, i, TRUE)
                 => /\ reminders'[i].status = "taken"
                    /\ \A k \in DOMAIN reminders \ {i} : reminders'[k] = reminders[k]
                    /\ DOMAIN reminders' = DOMAIN reminders
                    /\ jobs' = jobs \ JobsOf(jobs, i)
       /\ (/\ GenerateCommit(TRUE)
           /\ req.medicine_ids[req.i] \in DOMAIN medicines
           /\ medicines[req.medicine_ids[req.i]].timing = TwicePerDay
           /\ medicines[req.medicine_ids[req.i]].duration = 1)
             => /\ Len(req'.batch) = 2
                /\ req'.batch[1].reminder_time = LocalNow + 6
                /\ req'.batch[2].reminder_time = LocalNow + 14
                /\ \A k \in 1..2 : req'.batch[k].id \in DOMAIN reminders'
       /\ GenerateSchedule
             => \A k \in DOMAIN req.batch :
                   JobsOf(jobs', req.batch[k].id)
                       = {NewJob(req.batch[k].id, req.batch[k].reminder_time)}]_vars

(***************************************************************************)
(* Further properties of verify_medicine_authenticity (SpecVerify)         *)
(***************************************************************************)
\* step 1 sets status 'fake': there is a first code, and upper-cased it
\* carries a fake marker and no valid marker (the valid test comes first)
FirstCodeFake ==
    /\ Len(ScanCodes(vscan)) > 0
    /\ LET code == ToUpper(ScanCodes(vscan)[1])
       IN /\ ~(Contains(code, MG_VALID) \/ StartsWith(code, VALID))
          /\ Contains(code, FAKE) \/ Contains(code, FRAUD) \/ Contains(code, TEST_FAKE)

\* C11: when step 1 has set status 'fake' for a fake marker in the first
\* code, the status is 'fake' after every later step and in the result,
\* whatever the batch, expiry and manufacturer are.
C11_FakeIsTerminal ==
    (FirstCodeFake /\ vpc # "rule1") => vres.status = "fake"

\* a scan with a fake marker, a well-formed batch, a future expiry and an
\* accepted manufacturer has been returned
C11_Witness ==
    /\ Returned /\ FirstCodeFake /\ ExpiryFuture /\ ManufacturerAccepted
    /\ ScanBatch(vscan) # <<>> /\ ~BatchMalformed
    /\ vres.status = "fake"

(***************************************************************************)
(* Properties of generate_medicine_reminders (SpecGen, Spec)               *)
(***************************************************************************)
\* the text "3x/day"
ThricePerDay == <<"3", "x", "/", "d", "a", "y">>

\* C12: the call emits one slot per (day, slot) pair, days first, slot k of
\* day d at now + d days + (6 + k * (16 \div max(1, times_per_day))) hours;
\* "3x/day" for 2 days gives the six slots at 6, 11, 16, 30, 35 and 40
\* hours after now.
C12_SlotsInOrder ==
    gpc = "commit" =>
        /\ LET n == IF gtpd > 0 /\ gdays > 0 THEN gdays * gtpd ELSE 0
           IN /\ Len(gslots) = n
              /\ \A k \in 1..n :
                    gslots[k] = LocalNow + 24 * ((k - 1) \div gtpd)
                                + 6 + ((k - 1) % gtpd) * (16 \div Max(1, gtpd))
        /\ (gtiming = ThricePerDay /\ gdays = 2)
              => gslots = <<LocalNow + 6, LocalNow + 11, LocalNow + 16,
                            LocalNow + 30, LocalNow + 35, LocalNow + 40>>

\* C13: a slot is persisted if and only if its firing instant is strictly
\* after the instant of the generation: the reminders a call commits are
\* those of the slots of its medicine whose run date, read in the host's
\* zone, is later than the clock.
C13_EmittedIffFuture ==
    [][(GenerateCommit(TRUE) /\ req.medicine_ids[req.i] \in DOMAIN medicines) =>
          LET med == medicines[req.medicine_ids[req.i]]
              tpd == TimesPerDay(med.timing)
              slots == {LocalNow + 24 * d + 6 + k * (16 \div Max(1, tpd)) :
                           d \in 0..(med.duration - 1), k \in 0..(tpd - 1)}
              new == DOMAIN reminders' \ DOMAIN reminders
          IN {reminders'[i].reminder_time : i \in new}
                 = {t \in slots : t - tz > clock}]_vars

\* C14: the times_per_day the call uses is a positive integer: the number
\* in front of the first 'x' of the lower-cased timing text when that text
\* is a run of digits, and 1 when there is no 'x'.
C14_TimesPerDayPositive ==
    gpc # "parse" =>
        /\ gtpd \in Nat /\ gtpd >= 1
        /\ ~Contains(ToLower(gtiming), <<"x">>) => gtpd = 1
        /\ LET head == BeforeFirstX(ToLower(gtiming))
           IN (Contains(ToLower(gtiming), <<"x">>) /\ head # <<>> /\ AllDigits(head))
                  => gtpd = NumVal(head)

\* C15: no error of add_job or remove_job leaves schedule_reminder or
\* unschedule_reminder, and none undoes a committed record: after a
\* scheduling loop in which add_job raised, the reminders of the batch are
\* still stored as 'pending' and the request completes; a mark-taken or
\* skip whose remove_job finds no job has its status committed, answers
\* 200 and leaves the job table as it was.
C15_SchedulerErrorsContained ==
    [][/\ exc' = "none"
       /\ (req.op = "save" /\ GenerateScheduleFailing) =>
             /\ reminders' = reminders
             /\ \A o \in Range(req.batch) :
                   o.id \in DOMAIN reminders' /\ reminders'[o.id].status = "pending"
             /\ req'.op \in {"idle", "save"}
             /\ req' = Idle => resp' = "200"
       /\ \A i \in DOMAIN reminders :
             \* mark_reminder_taken or skip_reminder of a reminder without a job
             ( /\ Serving /\ resp' # "none"
               /\ JobsOf(jobs, i) = {}
               /\ i \in DOMAIN reminders' /\ reminders'[i] # reminders[i] )
             => /\ reminders'[i].status \in {"taken", "skipped"}
                /\ resp' = "200"
                /\ jobs' = jobs]_vars

\* a save has answered 200 although add_job raised for every reminder of
\* its batch: the reminders are stored as pending, and none has a job
C15_Witness ==
    /\ up /\ req = Idle /\ resp = "200"
    /\ reminders # Empty
    /\ \A i \in DOMAIN reminders :
          /\ reminders[i].status = "pending"
          /\ life[i] = "none" /\ JobsOf(jobs, i) = {} /\ notified[i] = 0

\* C16: the reminders of one medicine are created all or none: the commit
\* of generate_medicine_reminders adds every reminder of the batch it built,
\* or, when it fails, none, and then none is scheduled; the rows of other
\* reminders are left as they were.
C16_AllOrNothing ==
    [][\A ok \in BOOLEAN :
          (GenerateCommit(ok) /\ req.medicine_ids[req.i] \in DOMAIN medicines) =>
             LET med == medicines[req.medicine_ids[req.i]]
                 times == RemindersToCreate(med.timing, med.duration, LocalNow, clock)
                 new == DOMAIN reminders' \ DOMAIN reminders
             IN /\ DOMAIN reminders \subseteq DOMAIN reminders'
                /\ \A i \in DOMAIN reminders : reminders'[i] = reminders[i]
                /\ Cardinality(new) \in {0, Len(times)}
                /\ ok => /\ Cardinality(new) = Len(times)
                         /\ \A k \in DOMAIN times :
                               \E i \in new : reminders'[i].reminder_time = times[k]
                /\ ~ok => /\ new = {}
                          /\ jobs' = jobs
                          /\ req'.op = "save" => req'.batch = <<>>]_vars

\* the commit of a batch of reminders has failed: the request is at its
\* scheduling loop with nothing to schedule, and no reminder is stored
C16_Witness ==
    /\ req.op = "save" /\ req.step = "schedule" /\ req.batch = <<>>
    /\ reminders = Empty /\ jobs = {}

LaterStep == VerifyRule2 \/ VerifyRule3 \/ VerifyRule4

StepOf(detail) ==
    IF detail.msg \in {"Valid MediGuard barcode format detected",
                       "Counterfeited medicine pattern detected",
                       "Error scanning barcode - unable to verify",
                       "Barcode recognized", "No barcode detected in image"} THEN 1
    ELSE IF detail.msg \in {"Batch format valid", "Batch format unusual"} THEN 2
    ELSE IF detail.msg \in {"Expiry valid until", "Medicine already expired on",
                            "Could not parse expiry date"} THEN 3
    ELSE IF detail.msg = "Manufacturer" THEN 4
    ELSE 5

\* the steps of the details, in the order of the sequence
DetailSteps == [k \in DOMAIN vres.details |-> StepOf(vres.details[k])]

\* the batch / the expiry is given and is not the sentinel
BatchGiven == ScanBatch(vscan) # <<>> /\ ScanBatch(vscan) # UNKNOWN_BATCH
ExpiryGiven == ScanExpiry(vscan) # <<>> /\ ScanExpiry(vscan) # Not_detected

\* C19 as stated: the result carries a detail of each of the four steps, in
\* step order, and then at most one advisory of the final determination.
C19_Original ==
    Returned =>
        \/ DetailSteps = <<1, 2, 3, 4>>
        \/ DetailSteps = <<1, 2, 3, 4, 5>>

\* C19 as amended: the details are in step order with at most one of each
\* step, at every point of the call; the result carries the detail of the
\* code classification always, of the batch step when a batch other than
\* 'UNKNOWN' is given, of the expiry step when an expiry other than
\* 'Not detected' is given, of the manufacturer step when the manufacturer
\* is accepted, and the advisory when the status is 'suspicious'.
C19_DetailsInStepOrder ==
    /\ \A k \in DOMAIN DetailSteps :
          k > 1 => DetailSteps[k - 1] < DetailSteps[k]
    /\ Returned =>
          /\ vres.details # <<>> /\ DetailSteps[1] = 1
          /\ (2 \in Range(DetailSteps)) <=> BatchGiven
          /\ (3 \in Range(DetailSteps)) <=> ExpiryGiven
          /\ (4 \in Range(DetailSteps)) <=> ManufacturerAccepted
          /\ (5 \in Range(DetailSteps)) <=> vres.status = "suspicious"

\* a scan without a batch, with an expiry still ahead and an accepted
\* manufacturer has been returned with three details: code, expiry,
\* manufacturer
C19_Witness ==
    /\ Returned /\ ScanBatch(vscan) = <<>> /\ ExpiryFuture /\ ManufacturerAccepted
    /\ DetailSteps = <<1, 3, 4>>

\* C20 as stated: for an expiry that does not parse as a date, the expiry
\* step appends the advisory and leaves status and confidence as the batch
\* step left them.
C20_Original ==
    [][(VerifyRule3 /\ ~ExpiryParses) =>
          /\ vres'.status = vres.status
          /\ vres'.confidence = vres.confidence
          /\ vres'.details = Append(vres.details,
                 Detail("Could not parse expiry date", ScanExpiry(vscan)))]_vars

\* C20 as amended: for an expiry that does not parse as a date, the expiry
\* step leaves status and confidence as the batch step left them and goes
\* on to the manufacturer step; it appends the advisory when an expiry
\* other than 'Not detected' is given, and nothing when the expiry is
\* missing, empty or 'Not detected'.
C20_UnparsedExpiryAdvisory ==
    [][(VerifyRule3 /\ ~ExpiryParses) =>
          /\ vres'.status = vres.status
          /\ vres'.confidence = vres.confidence
          /\ vres'.details =
                (IF ExpiryGiven
                 THEN Append(vres.details,
                          Detail("Could not parse expiry date", ScanExpiry(vscan)))
                 ELSE vres.details)
          /\ vpc' = "rule4"]_vars

\* the expiry step has run on '2024-02-30', which is no calendar date, and
\* has appended the advisory
C20_Witness ==
    /\ vpc = "rule4"
    /\ ScanExpiry(vscan) = <<"2","0","2","4","-","0","2","-","3","0">>
    /\ ~ExpiryParses
    /\ vres.details # <<>>
    /\ vres.details[Len(vres.details)].msg = "Could not parse expiry date"

\* the times of a second call on the same scan: those of the first call,
\* and three years on
CallTimes == NowValues \cup {[y |-> 2027, m |-> 1, d |-> 1, tod |-> 0]}

\* the scan's expiry is on the same side of the two times: ahead of both
\* or of neither
SameSideOfExpiry(n1, n2) ==
    DateAfterNow(Strptime(ScanExpiry(vscan)), n1)
        <=> DateAfterNow(Strptime(ScanExpiry(vscan)), n2)

C22_StartupRecovers ==
    /\ [](up => running)
    /\ \A i \in ReminderIds :
          ( /\ up /\ i \in DOMAIN reminders
            /\ reminders[i].status = "pending"
            /\ life[i] # "cancelled"
            /\ FiringInstant(i) > clock )
          ~> ( \/ ~up
               \/ notified[i] > 0
               \/ life[i] = "cancelled"
               \/ i \notin DOMAIN reminders
               \/ reminders[i].status # "pending" )

\* C23: mark_reminder_taken and skip_reminder called by a user who does
\* not own the reminder answer 403, whether or not a commit would succeed,
\* and a call answered 403 changes nothing: the store, the job table and
\* the notifications are as before.
C23_NonOwnerChangesNothing ==
    [][/\ (Serving /\ resp' \in {"200", "400", "404"}) =>
             \A u \in Users, i \in DOMAIN reminders, ok \in BOOLEAN :
                ( /\ reminders[i].user_id # u
                  /\ MarkReminderTaken(u, i, ok) \/ SkipReminder(u, i, ok) )
                => FALSE    \* such a call is answered 403
       /\ (Serving /\ resp' = "403") =>
             /\ reminders' = reminders
             /\ jobs' = jobs
             /\ UNCHANGED <<notified, exc, prescriptions, medicines, life>>]_vars

\* a call on a pending reminder that has its job has been answered 403,
\* and the reminder is pending with its job
C23_Witness ==
    /\ up /\ resp = "403"
    /\ \E i \in DOMAIN reminders :
          /\ reminders[i].status = "pending"
          /\ reminders[i].user_id = 1
          /\ JobsOf(jobs, i) # {}

C25_DeleteConsistent ==
    [][/\ (Serving /\ resp' = "302 deleted") =>
             \A i \in DOMAIN reminders \ DOMAIN reminders' : JobsOf(jobs', i) = {}
       /\ (Serving /\ resp' = "302 error") =>
             /\ UNCHANGED <<prescriptions, medicines, reminders>>
             /\ jobs' = jobs]_vars

=============================================================================
